---- MODULE Spec2Model ----
(***************************************************************************)
(* keytransform.Datastore of daotl/go-datastore: a datastore wrapper that  *)
(* converts every key with a KeyTransform before it reaches the child      *)
(* datastore and inverts the keys of query results on the way back.        *)
(*                                                                         *)
(* Four specifications share the variables below:                          *)
(*   Spec       the point operations and Batch against a recording child   *)
(*   SpecPlan   prepareQuery applied to a bounded set of queries           *)
(*   SpecQuery  Query against a child that holds a key/value table         *)
(*   SpecStream Query against a child whose result stream is arbitrary     *)
(***************************************************************************)
EXTENDS Integers, Sequences, FiniteSets, TLC

(***************************************************************************)
(* Bounds.                                                                 *)
(***************************************************************************)
MaxKeyLen == 2
MaxEntries == 2
MaxOrders == 2
MaxFilters == 2
MaxOffset == 1
MaxResults == 2

Components == {1, 2}
Values == {1, 2}

(***************************************************************************)
(* Keys: a key is the sequence of its path components; /1/2 is <<1, 2>>    *)
(* and the root / is << >>.  A raw (uncleaned) key may hold the empty      *)
(* component 0, as in /1//2.  NilKey stands for the nil key.Key.           *)
(***************************************************************************)
NilKey == <<-1>>

SeqsUpTo(S, n) == UNION {[1..m -> S] : m \in 0..n}

Keys == SeqsUpTo(Components, MaxKeyLen)

Min(a, b) == IF a < b THEN a ELSE b

IsPrefixOf(p, k) == Len(p) <= Len(k) /\ SubSeq(k, 1, Len(p)) = p

\* key.Key ordering: lexicographic over the components.
KeyLess(a, b) ==
    \/ \E i \in 1..Min(Len(a), Len(b)) :
          /\ a[i] < b[i]
          /\ \A j \in 1..(i - 1) : a[j] = b[j]
    \/ Len(a) < Len(b) /\ IsPrefixOf(a, b)

\* key.Clean: the normalised path form, empty components removed.
Clean(k) == SelectSeq(k, LAMBDA c : c # 0)

(***************************************************************************)
(* KeyTransform.  PrefixTransform prepends its Prefix and strips it again. *)
(* The other transform is a KeyTransform given by a pair of functions; it  *)
(* swaps the two components, which is its own inverse and reverses the     *)
(* order of the keys.                                                      *)
(***************************************************************************)
NsPrefix == <<2>>

PrefixTransform == [kind |-> "PrefixTransform", Prefix |-> NsPrefix]
PairTransform == [kind |-> "Pair", Prefix |-> << >>]

Transforms == {PrefixTransform, PairTransform}

Swap(k) == [i \in DOMAIN k |-> IF k[i] = 1 THEN 2 ELSE IF k[i] = 2 THEN 1 ELSE k[i]]

ConvertKey(t, k) ==
    IF t.kind = "PrefixTransform" THEN t.Prefix \o k ELSE Swap(k)

InvertKey(t, k) ==
    IF t.kind = "PrefixTransform"
    THEN IF IsPrefixOf(t.Prefix, k) THEN SubSeq(k, Len(t.Prefix) + 1, Len(k)) ELSE k
    ELSE Swap(k)

(***************************************************************************)
(* dsq.Query, its Orders and its Filters.                                  *)
(***************************************************************************)
OrderKinds ==
    {"OrderByValue", "OrderByValueDescending", "OrderByKey", "OrderByKeyDescending",
     "OrderByFunction"}

IsByValue(o) == o \in {"OrderByValue", "OrderByValueDescending"}
IsByKey(o) == o \in {"OrderByKey", "OrderByKeyDescending"}

Ops == {"==", "!=", "<", "<=", ">", ">="}

\* A filter; ptr tells *dsq.FilterX from dsq.FilterX.  Fields a kind does not
\* have hold their zero value.
FilterValueCompare(op, v) ==
    [kind |-> "FilterValueCompare", ptr |-> FALSE, Op |-> op, Key |-> NilKey, Value |-> v]
FilterKeyCompare(ptr, op, k) ==
    [kind |-> "FilterKeyCompare", ptr |-> ptr, Op |-> op, Key |-> k, Value |-> 0]
FilterKeyPrefix(ptr, p) ==
    [kind |-> "FilterKeyPrefix", ptr |-> ptr, Op |-> "", Key |-> p, Value |-> 0]
\* A filter of a kind prepareQuery does not know: a caller's own predicate.
FilterFunc ==
    [kind |-> "FilterFunc", ptr |-> FALSE, Op |-> "", Key |-> NilKey, Value |-> 0]

EmptyRange == [Start |-> NilKey, End |-> NilKey]

\* The zero dsq.Query.
ZeroQuery ==
    [Prefix |-> NilKey, Range |-> EmptyRange, Orders |-> << >>, Filters |-> << >>,
     Offset |-> 0, Limit |-> 0]

(***************************************************************************)
(* prepareQuery.                                                           *)
(***************************************************************************)
\* Lines 122-128: only a PrefixTransform (or a pointer to one) preserves order.
orderPreservingAlways(t) == TRUE
orderPreserving(t) == t.kind = "PrefixTransform"

\* Lines 113-120: the child's Range after "child.Range = dsq.Range{}" and the
\* two conversions, which read the Range just cleared.
childRange(t, q) ==
    LET cleared == EmptyRange
    IN  [Start |-> IF cleared.Start # NilKey THEN ConvertKey(t, cleared.Start)
                   ELSE cleared.Start,
         End |-> IF cleared.End # NilKey THEN ConvertKey(t, cleared.End)
                 ELSE cleared.End]

\* The orders loop from index i on: whether it punts to the naive ordering,
\* and the Orders it leaves to the child.
\* An order kind stands for the order and for a pointer to it, which the
\* switch treats alike.
RECURSIVE scanOrders(_, _, _)
scanOrders(orders, i, op) ==
    IF i > Len(orders) THEN [fallback |-> FALSE, Orders |-> orders]
    ELSE IF IsByValue(orders[i]) THEN scanOrders(orders, i + 1, op)
    ELSE IF IsByKey(orders[i]) /\ op
         THEN [fallback |-> FALSE, Orders |-> SubSeq(orders, 1, i)]
    ELSE [fallback |-> TRUE, Orders |-> << >>]

\* One pass of the filters loop over filter f: the rewritten filter.
rewriteFilterCompareOnly(t, f) ==
    IF f.kind = "FilterKeyCompare"
    THEN [f EXCEPT !.Key = ConvertKey(t, f.Key)]
    ELSE f
rewriteFilter(t, f) ==
    IF f.kind \in {"FilterKeyCompare", "FilterKeyPrefix"}
    THEN [f EXCEPT !.Key = ConvertKey(t, f.Key)]
    ELSE f

knownFilter(f) == f.kind \in {"FilterValueCompare", "FilterKeyCompare", "FilterKeyPrefix"}

\* The filters loop from index i on, over the copy of the caller's Filters.
RECURSIVE scanFiltersFrom(_, _, _)
scanFiltersFrom(t, filters, i) ==
    IF i > Len(filters) THEN [fallback |-> FALSE, Filters |-> filters]
    ELSE IF knownFilter(filters[i])
         THEN scanFiltersFrom(t, [filters EXCEPT ![i] = rewriteFilter(t, filters[i])], i + 1)
    ELSE [fallback |-> TRUE, Filters |-> << >>]
scanFilters(t, filters) == scanFiltersFrom(t, filters, 1)

prepareQueryNoReset(t, q) ==
    LET os == scanOrders(q.Orders, 1, orderPreserving(t))
        fs == scanFilters(t, q.Filters)
        fb == os.fallback \/ fs.fallback
    IN  [naive |-> [ZeroQuery EXCEPT
                      !.Orders = IF os.fallback THEN q.Orders ELSE << >>,
                      !.Filters = IF fs.fallback THEN q.Filters ELSE << >>,
                      !.Offset = IF fb THEN q.Offset ELSE 0,
                      !.Limit = IF fb THEN q.Limit ELSE 0],
         child |-> [Prefix |-> ConvertKey(t, Clean(q.Prefix)),
                    Range |-> childRange(t, q),
                    Orders |-> os.Orders,
                    Filters |-> fs.Filters,
                    Offset |-> IF os.fallback THEN 0 ELSE q.Offset,
                    Limit |-> IF fb THEN 0 ELSE q.Limit]]
prepareQuery(t, q) ==
    LET os == scanOrders(q.Orders, 1, orderPreserving(t))
        fs == scanFilters(t, q.Filters)
        fb == os.fallback \/ fs.fallback
    IN  [naive |-> [ZeroQuery EXCEPT
                      !.Orders = IF os.fallback THEN q.Orders ELSE << >>,
                      !.Filters = IF fs.fallback THEN q.Filters ELSE << >>,
                      !.Offset = IF fb THEN q.Offset ELSE 0,
                      !.Limit = IF fb THEN q.Limit ELSE 0],
         child |-> [Prefix |-> ConvertKey(t, Clean(q.Prefix)),
                    Range |-> childRange(t, q),
                    Orders |-> os.Orders,
                    Filters |-> fs.Filters,
                    Offset |-> IF fb THEN 0 ELSE q.Offset,
                    Limit |-> IF fb THEN 0 ELSE q.Limit]]

(***************************************************************************)
(* State.                                                                  *)
(***************************************************************************)
VARIABLES
    t,          \* Datastore.KeyTransform, fixed by Wrap
    pc,         \* where the caller is
    q,          \* the Query the caller passed
    naive,      \* prepareQuery's naive query
    child,      \* prepareQuery's child query
    store,      \* the child's table: a set of [Key, Value], keys physical
    cqr,        \* the results the child's result stream produces, in order
    taken,      \* how many of them NextSync has taken
    childOpen,  \* the child's result stream is open
    qr,         \* what the key-inverting iterator has yielded so far
    inverted,   \* the keys InvertKey has been called with
    queryRet,   \* what Query returned: [results, err]
    closeErr,   \* the error the child's Close will return
    closeRet,   \* what Close on the returned results returned
    batching,   \* the child implements ds.Batching
    batch,      \* the transformBatch the caller holds, if any
    call,       \* the wrapper call in progress or last made
    childCalls, \* the calls that wrapper call made on the child
    childRet,   \* what the child returned to the last of them
    ret         \* what the wrapper call returned

vars ==
    <<t, pc, q, naive, child, store, cqr, taken, childOpen, qr, inverted, queryRet,
      closeErr, closeRet, batching, batch, call, childCalls, childRet, ret>>

queryVars == <<q, naive, child, cqr, taken, childOpen, qr, inverted, queryRet, closeErr, closeRet>>
callVars == <<batch, call, childCalls, childRet, ret>>

NoCall == [op |-> "none", key |-> NilKey, value |-> 0]
NoRet == [result |-> 0, err |-> "nil"]

\* The state Wrap leaves: nothing asked of the wrapper yet.
Fresh ==
    /\ pc = "idle"
    /\ q = ZeroQuery /\ naive = ZeroQuery /\ child = ZeroQuery
    /\ cqr = << >> /\ taken = 0 /\ childOpen = FALSE /\ qr = << >> /\ inverted = << >>
    /\ queryRet = [results |-> FALSE, err |-> "nil"]
    /\ closeErr = "nil" /\ closeRet = "none"
    /\ batch = "none" /\ call = NoCall /\ childCalls = << >>
    /\ childRet = NoRet /\ ret = NoRet

(***************************************************************************)
(* SpecPlan: prepareQuery on every query of PlanQueries.                   *)
(***************************************************************************)
PlanPrefixes == {<< >>, <<1, 0>>}
PlanRanges == {EmptyRange, [Start |-> <<1>>, End |-> <<2>>]}
PlanFilters ==
    {FilterValueCompare(">", 1), FilterKeyCompare(FALSE, "<", <<2>>),
     FilterKeyCompare(TRUE, ">=", <<1>>), FilterKeyPrefix(FALSE, <<1>>),
     FilterKeyPrefix(TRUE, <<2>>), FilterFunc}

PlanQueries ==
    [Prefix : PlanPrefixes, Range : PlanRanges,
     Orders : SeqsUpTo(OrderKinds, MaxOrders),
     Filters : SeqsUpTo(PlanFilters, MaxFilters),
     Offset : 0..MaxOffset, Limit : 0..MaxOffset]

InitPlan ==
    /\ t \in Transforms
    /\ store = {}
    /\ batching = FALSE
    /\ Fresh

Plan ==
    /\ pc = "idle"
    /\ \E qq \in PlanQueries :
          /\ q' = qq
          /\ naive' = prepareQuery(t, qq).naive
          /\ child' = prepareQuery(t, qq).child
    /\ pc' = "planned"
    /\ UNCHANGED <<t, store, cqr, taken, childOpen, qr, inverted, queryRet, closeErr, closeRet,
                   batching, batch, call, childCalls, childRet, ret>>

NextPlan == Plan

SpecPlan == InitPlan /\ [][NextPlan]_vars

(***************************************************************************)
(* Spec: the point operations and Batch.  The child records the calls made *)
(* on it and answers each with a result and an error of its own choosing.  *)
(***************************************************************************)
ChildErrs == {"nil", "ErrChild"}
ChildResults == {0} \cup Values

\* The wrapper call op(k, v) makes the child call childOp(pk, v), to which
\* the child answers r; the wrapper returns r.
Delegate(op, k, v, childOp, pk) ==
    /\ call' = [op |-> op, key |-> k, value |-> v]
    /\ childCalls' = <<[op |-> childOp, key |-> pk, value |-> v]>>
    /\ \E r \in ChildResults, e \in ChildErrs :
          /\ childRet' = [result |-> r, err |-> e]
          /\ ret' = [result |-> r, err |-> e]
    /\ UNCHANGED <<t, pc, store, batching, batch, queryVars>>

Put ==
    \E k \in Keys, v \in Values : Delegate("Put", k, v, "Put", ConvertKey(t, k))

Sync ==
    \E k \in Keys : Delegate("Sync", k, 0, "Sync", ConvertKey(t, k))

Get ==
    \E k \in Keys : Delegate("Get", k, 0, "Get", ConvertKey(t, k))

Has ==
    \E k \in Keys : Delegate("Has", k, 0, "Has", ConvertKey(t, k))

GetSize ==
    \E k \in Keys : Delegate("GetSize", k, 0, "GetSize", ConvertKey(t, k))

DeleteUnconverted ==
    \E k \in Keys : Delegate("Delete", k, 0, "Delete", k)
Delete ==
    \E k \in Keys : Delegate("Delete", k, 0, "Delete", ConvertKey(t, k))

\* Datastore.Batch: no batch and ErrBatchUnsupported from a child that is not
\* a ds.Batching, and otherwise what the child's Batch returns, wrapped.
BatchNilError ==
    /\ call' = [op |-> "Batch", key |-> NilKey, value |-> 0]
    /\ IF ~batching
       THEN /\ childCalls' = << >>
            /\ childRet' = NoRet
            /\ ret' = [result |-> 0, err |-> "nil"]
            /\ batch' = "none"
       ELSE /\ childCalls' = <<[op |-> "Batch", key |-> NilKey, value |-> 0]>>
            /\ \E e \in ChildErrs :
                  /\ childRet' = [result |-> 0, err |-> e]
                  /\ ret' = [result |-> 0, err |-> e]
                  /\ batch' = IF e = "nil" THEN "open" ELSE "none"
    /\ UNCHANGED <<t, pc, store, batching, queryVars>>
Batch ==
    /\ call' = [op |-> "Batch", key |-> NilKey, value |-> 0]
    /\ IF ~batching
       THEN /\ childCalls' = << >>
            /\ childRet' = NoRet
            /\ ret' = [result |-> 0, err |-> "ErrBatchUnsupported"]
            /\ batch' = "none"
       ELSE /\ childCalls' = <<[op |-> "Batch", key |-> NilKey, value |-> 0]>>
            /\ \E e \in ChildErrs :
                  /\ childRet' = [result |-> 0, err |-> e]
                  /\ ret' = [result |-> 0, err |-> e]
                  /\ batch' = IF e = "nil" THEN "open" ELSE "none"
    /\ UNCHANGED <<t, pc, store, batching, queryVars>>

\* transformBatch.Put, Delete and Commit, on the child's batch dst.
BatchPut ==
    /\ batch = "open"
    /\ \E k \in Keys, v \in Values :
          Delegate("Batch.Put", k, v, "dst.Put", ConvertKey(t, k))

BatchDelete ==
    /\ batch = "open"
    /\ \E k \in Keys : Delegate("Batch.Delete", k, 0, "dst.Delete", ConvertKey(t, k))

Commit ==
    /\ batch = "open"
    /\ Delegate("Batch.Commit", NilKey, 0, "dst.Commit", NilKey)

Init ==
    /\ t \in Transforms
    /\ batching \in BOOLEAN
    /\ store = {}
    /\ Fresh

Next ==
    \/ Put
    \/ Sync
    \/ Get
    \/ Has
    \/ GetSize
    \/ Delete
    \/ Batch
    \/ BatchPut
    \/ BatchDelete
    \/ Commit

Spec == Init /\ [][Next]_vars

(***************************************************************************)
(* What a query means: the child's query execution and the naive query     *)
(* processor dsq.NaiveQueryApply, over entries [Key, Value].               *)
(***************************************************************************)
Compare(op, lt, eq) ==
    CASE op = "==" -> eq
      [] op = "!=" -> ~eq
      [] op = "<" -> lt
      [] op = "<=" -> lt \/ eq
      [] op = ">" -> ~lt /\ ~eq
      [] op = ">=" -> ~lt

\* Filter.Filter(e).  A FilterFunc is the caller's predicate; here it accepts
\* the keys of one component.
MatchFilter(f, e) ==
    CASE f.kind = "FilterValueCompare" ->
            Compare(f.Op, e.Value < f.Value, e.Value = f.Value)
      [] f.kind = "FilterKeyCompare" ->
            Compare(f.Op, KeyLess(e.Key, f.Key), e.Key = f.Key)
      [] f.kind = "FilterKeyPrefix" -> IsPrefixOf(f.Key, e.Key)
      [] f.kind = "FilterFunc" -> Len(e.Key) = 1

MatchPrefix(p, k) == p = NilKey \/ IsPrefixOf(p, k)

\* The half-open range [Start, End).
MatchRange(r, k) ==
    /\ r.Start = NilKey \/ ~KeyLess(k, r.Start)
    /\ r.End = NilKey \/ KeyLess(k, r.End)

Sign(lt, eq) == IF eq THEN 0 ELSE IF lt THEN -1 ELSE 1

\* Order.Compare(a, b).  An OrderByFunction is the caller's comparison; here
\* it orders by the number of components.
OrderCompare(o, a, b) ==
    CASE o = "OrderByValue" -> Sign(a.Value < b.Value, a.Value = b.Value)
      [] o = "OrderByValueDescending" -> Sign(b.Value < a.Value, a.Value = b.Value)
      [] o = "OrderByKey" -> Sign(KeyLess(a.Key, b.Key), a.Key = b.Key)
      [] o = "OrderByKeyDescending" -> Sign(KeyLess(b.Key, a.Key), a.Key = b.Key)
      [] o = "OrderByFunction" -> Sign(Len(a.Key) < Len(b.Key), Len(a.Key) = Len(b.Key))

\* dsq.Less: the first order that tells a from b decides, and the keys decide
\* when none does.
RECURSIVE Less(_, _, _)
Less(orders, a, b) ==
    IF orders = << >> THEN KeyLess(a.Key, b.Key)
    ELSE LET c == OrderCompare(Head(orders), a, b)
         IN  IF c = 0 THEN Less(Tail(orders), a, b) ELSE c < 0

\* The entries of S (their keys distinct) sorted by orders.
RECURSIVE Sorted(_, _)
Sorted(orders, S) ==
    IF S = {} THEN << >>
    ELSE LET first == CHOOSE x \in S : \A y \in S \ {x} : Less(orders, x, y)
         IN  <<first>> \o Sorted(orders, S \ {first})

SeqRange(s) == {s[i] : i \in DOMAIN s}

Drop(s, n) == SubSeq(s, n + 1, Len(s))
Take(s, n) == SubSeq(s, 1, Min(n, Len(s)))

\* Query qq over the entries es, which arrive in the order of es: Prefix,
\* Range and Filters select, Orders sort, then Offset and Limit cut.
ApplyQuery(qq, es) ==
    LET kept == SelectSeq(es, LAMBDA e :
                    /\ MatchPrefix(qq.Prefix, e.Key)
                    /\ MatchRange(qq.Range, e.Key)
                    /\ \A i \in DOMAIN qq.Filters : MatchFilter(qq.Filters[i], e))
        ordered == IF qq.Orders = << >> THEN kept ELSE Sorted(qq.Orders, SeqRange(kept))
        skipped == Drop(ordered, qq.Offset)
    IN  IF qq.Limit = 0 THEN skipped ELSE Take(skipped, qq.Limit)

\* The child executes a query over its table, which it keeps in key order.
ChildQuery(cq) == ApplyQuery(cq, Sorted(<< >>, store))

AsResult(e) == [Key |-> e.Key, Value |-> e.Value, Error |-> "nil"]
AsEntry(r) == [Key |-> r.Key, Value |-> r.Value]

\* What Query's caller has read so far: NaiveQueryApply(nq, qr).
Results == ApplyQuery(naive, [i \in DOMAIN qr |-> AsEntry(qr[i])])

(***************************************************************************)
(* Query, the iterator it builds, and Close.                               *)
(***************************************************************************)
\* Datastore.Query(qq), where the child answers its query cq with the error
\* e, or with a stream that produces rs and whose Close will return ce.
QueryWith(qq, e, rs, ce) ==
    /\ pc = "idle"
    /\ q' = qq
    /\ naive' = prepareQuery(t, qq).naive
    /\ child' = prepareQuery(t, qq).child
    /\ childRet' = [result |-> 0, err |-> e]
    /\ taken' = 0 /\ qr' = << >> /\ inverted' = << >>
    /\ IF e # "nil"
       THEN /\ queryRet' = [results |-> FALSE, err |-> e]
            /\ cqr' = << >> /\ childOpen' = FALSE /\ closeErr' = "nil"
            /\ pc' = "failed"
       ELSE /\ queryRet' = [results |-> TRUE, err |-> "nil"]
            /\ cqr' = rs /\ childOpen' = TRUE /\ closeErr' = ce
            /\ pc' = "iterating"
    /\ UNCHANGED <<t, store, closeRet, batching, batch, call, childCalls, ret>>

\* The iterator's Next.
NextSyncInvertAll ==
    /\ pc = "iterating"
    /\ IF taken = Len(cqr)
       THEN /\ pc' = "exhausted"
            /\ UNCHANGED <<taken, qr, inverted>>
       ELSE LET r == cqr[taken + 1]
            IN  /\ taken' = taken + 1
                /\ qr' = Append(qr, [r EXCEPT !.Key = InvertKey(t, r.Key)])
                /\ inverted' = Append(inverted, r.Key)
                /\ pc' = pc
    /\ UNCHANGED <<t, q, naive, child, store, cqr, childOpen, queryRet, closeErr, closeRet,
                   batching, batch, call, childCalls, childRet, ret>>
NextSync ==
    /\ pc = "iterating"
    /\ IF taken = Len(cqr)
       THEN /\ pc' = "exhausted"
            /\ UNCHANGED <<taken, qr, inverted>>
       ELSE LET r == cqr[taken + 1]
            IN  /\ taken' = taken + 1
                /\ IF r.Error = "nil"
                   THEN /\ qr' = Append(qr, [r EXCEPT !.Key = InvertKey(t, r.Key)])
                        /\ inverted' = Append(inverted, r.Key)
                   ELSE /\ qr' = Append(qr, r)
                        /\ inverted' = inverted
                /\ pc' = pc
    /\ UNCHANGED <<t, q, naive, child, store, cqr, childOpen, queryRet, closeErr, closeRet,
                   batching, batch, call, childCalls, childRet, ret>>

\* The iterator's Close.
CloseResultsOnly ==
    /\ pc \in {"iterating", "exhausted"}
    /\ closeRet' = "nil"
    /\ pc' = "closed"
    /\ UNCHANGED <<t, q, naive, child, store, cqr, taken, childOpen, qr, inverted, queryRet,
                   closeErr, batching, batch, call, childCalls, childRet, ret>>
CloseResults ==
    /\ pc \in {"iterating", "exhausted"}
    /\ childOpen' = FALSE
    /\ closeRet' = closeErr
    /\ pc' = "closed"
    /\ UNCHANGED <<t, q, naive, child, store, cqr, taken, qr, inverted, queryRet,
                   closeErr, batching, batch, call, childCalls, childRet, ret>>

(***************************************************************************)
(* SpecQuery: Query against a child that holds a table written through    *)
(* the wrapper and that executes its query without error.                  *)
(***************************************************************************)
ExecMaxOrders == 1
ExecMaxFilters == 1

\* The tables of at most MaxEntries entries, keys logical and below the root.
Contents ==
    UNION {{{[Key |-> k, Value |-> f[k]] : k \in S} : f \in [S -> Values]} :
           S \in {S \in SUBSET (Keys \ {<< >>}) : Cardinality(S) <= MaxEntries}}

ExecRanges ==
    {EmptyRange, [Start |-> <<1, 2>>, End |-> <<2, 1>>]}
ExecFilters ==
    {FilterValueCompare(">", 1), FilterKeyPrefix(FALSE, <<1>>), FilterFunc}
        \cup {FilterKeyCompare(FALSE, op, <<1, 2>>) : op \in Ops}

ExecQueries ==
    [Prefix : {<< >>, <<1, 0>>}, Range : ExecRanges,
     Orders : SeqsUpTo(OrderKinds, ExecMaxOrders),
     Filters : SeqsUpTo(ExecFilters, ExecMaxFilters),
     Offset : 0..MaxOffset, Limit : 0..MaxOffset]

InitQuery ==
    /\ t \in Transforms
    /\ \E L \in Contents :
          store = {[Key |-> ConvertKey(t, e.Key), Value |-> e.Value] : e \in L}
    /\ batching = FALSE
    /\ Fresh

Query ==
    \E qq \in ExecQueries :
        QueryWith(qq, "nil",
                  LET rs == ChildQuery(prepareQuery(t, qq).child)
                  IN  [i \in DOMAIN rs |-> AsResult(rs[i])],
                  "nil")

NextQuery ==
    \/ Query
    \/ NextSync
    \/ CloseResults

SpecQuery == InitQuery /\ [][NextQuery]_vars

(***************************************************************************)
(* SpecStream: Query against a child that may refuse the query, and whose  *)
(* result stream produces any results, entries and errors alike.           *)
(***************************************************************************)
StreamQueries ==
    {ZeroQuery,
     [ZeroQuery EXCEPT !.Prefix = <<1>>, !.Orders = <<"OrderByKey">>],
     [ZeroQuery EXCEPT !.Prefix = << >>, !.Filters = <<FilterFunc>>, !.Limit = 1]}

StreamResults ==
    {[Key |-> ConvertKey(t, k), Value |-> v, Error |-> e] :
        k \in {<<1>>, <<1, 2>>}, v \in {1}, e \in {"nil", "ErrIter"}}

InitStream ==
    /\ t \in Transforms
    /\ store = {}
    /\ batching = FALSE
    /\ Fresh

QueryAny ==
    \E qq \in StreamQueries, e \in ChildErrs, ce \in ChildErrs,
       rs \in SeqsUpTo(StreamResults, MaxResults) :
        QueryWith(qq, e, rs, ce)

NextStream ==
    \/ QueryAny
    \/ NextSync
    \/ CloseResults

SpecStream == InitStream /\ [][NextStream]_vars

(***************************************************************************)
(* Properties of the point operations and of Batch, under Spec.            *)
(***************************************************************************)
KeyOps == {"Put", "Sync", "Get", "Has", "GetSize", "Delete", "Batch.Put", "Batch.Delete"}

ChildOpOf(op) ==
    CASE op = "Batch.Put" -> "dst.Put"
      [] op = "Batch.Delete" -> "dst.Delete"
      [] OTHER -> op

\* C2: every Put, Get, Has, GetSize, Delete and Sync on the wrapper, and every
\* Put and Delete on a batch it returned, makes exactly one call of the same
\* operation on the child (or the child's batch), with the converted key and
\* the same value, and returns what the child returned, error included.
C2_KeyTranslation ==
    call.op \in KeyOps =>
        /\ childCalls =
              <<[op |-> ChildOpOf(call.op), key |-> ConvertKey(t, call.key),
                 value |-> call.value]>>
        /\ t.kind = "PrefixTransform" => childCalls[1].key = NsPrefix \o call.key
        /\ ret = childRet

C2_Witness ==
    /\ t.kind = "PrefixTransform"
    /\ call = [op |-> "Delete", key |-> <<1>>, value |-> 0]
    /\ childCalls = <<[op |-> "Delete", key |-> <<2, 1>>, value |-> 0]>>
    /\ ret.err = "ErrChild"

\* C9: Batch on a child that is no ds.Batching returns no batch and
\* ErrBatchUnsupported without calling the child; on a batching child it
\* returns the child's error unchanged, and a batch exactly when there is
\* none; Commit makes one Commit call on the child's batch and returns its
\* error.
C9_Batch ==
    /\ (call.op = "Batch" /\ ~batching) =>
          /\ ret.err = "ErrBatchUnsupported"
          /\ batch = "none"
          /\ childCalls = << >>
    /\ (call.op = "Batch" /\ batching) =>
          /\ childCalls = <<[op |-> "Batch", key |-> NilKey, value |-> 0]>>
          /\ ret = childRet
          /\ (batch = "open") <=> (childRet.err = "nil")
    /\ call.op = "Batch.Commit" =>
          /\ childCalls = <<[op |-> "dst.Commit", key |-> NilKey, value |-> 0]>>
          /\ ret = childRet

C9_Witness ==
    /\ ~batching
    /\ call.op = "Batch"
    /\ ret.err = "ErrBatchUnsupported"
    /\ childCalls = << >>

(***************************************************************************)
(* Properties of prepareQuery, under SpecPlan.                             *)
(***************************************************************************)
\* The first order that is not by value, if it is by key.
LeadsToByKey(orders, i) ==
    /\ i \in DOMAIN orders
    /\ IsByKey(orders[i])
    /\ \A j \in 1..(i - 1) : IsByValue(orders[j])

AllKnown(filters) == \A i \in DOMAIN filters : knownFilter(filters[i])

\* C3: for Orders that are by-value orders followed by a by-key order, and
\* Filters all of a known kind: under PrefixTransform the naive query has no
\* Orders, Offset or Limit and the child has the Orders up to the by-key
\* order and the caller's Offset and Limit; under another transform the
\* naive query has the caller's Orders, Offset and Limit and the child none.
C3_OrderGating ==
    \A i \in DOMAIN q.Orders :
        (pc = "planned" /\ LeadsToByKey(q.Orders, i) /\ AllKnown(q.Filters)) =>
            IF t.kind = "PrefixTransform"
            THEN /\ naive.Orders = << >> /\ naive.Offset = 0 /\ naive.Limit = 0
                 /\ child.Orders = SubSeq(q.Orders, 1, i)
                 /\ child.Offset = q.Offset /\ child.Limit = q.Limit
            ELSE /\ naive.Orders = q.Orders
                 /\ naive.Offset = q.Offset /\ naive.Limit = q.Limit
                 /\ child.Orders = << >> /\ child.Offset = 0 /\ child.Limit = 0

C3_Witness ==
    /\ pc = "planned"
    /\ t.kind = "PrefixTransform"
    /\ q.Orders = <<"OrderByValue", "OrderByKeyDescending">>
    /\ AllKnown(q.Filters) /\ q.Filters # << >>
    /\ q.Limit = 1 /\ child.Limit = 1 /\ naive.Limit = 0
    /\ child.Orders = q.Orders

\* An order forces the fallback when the first order that is not by value is
\* not a by-key order under an order-preserving transform.
OrderForcesFallback ==
    \E i \in DOMAIN q.Orders :
        /\ ~IsByValue(q.Orders[i])
        /\ ~(IsByKey(q.Orders[i]) /\ t.kind = "PrefixTransform")
        /\ \A j \in 1..(i - 1) : IsByValue(q.Orders[j])

FilterForcesFallback == ~AllKnown(q.Filters)

\* C4: Offset and Limit go to one side: to the naive query, and 0 to the
\* child, when an order or a filter forces the fallback, and to the child,
\* and 0 to the naive query, when none does.  The child has no Offset or
\* Limit while the naive query has Orders or Filters, and never both have an
\* Offset.
C4_OffsetLimitPlacement ==
    pc = "planned" =>
        /\ IF OrderForcesFallback \/ FilterForcesFallback
           THEN /\ child.Offset = 0 /\ child.Limit = 0
                /\ naive.Offset = q.Offset /\ naive.Limit = q.Limit
           ELSE /\ child.Offset = q.Offset /\ child.Limit = q.Limit
                /\ naive.Offset = 0 /\ naive.Limit = 0
        /\ (naive.Orders # << >> \/ naive.Filters # << >>) =>
              (child.Offset = 0 /\ child.Limit = 0)
        /\ ~(child.Offset # 0 /\ naive.Offset # 0)

C4_Witness ==
    /\ pc = "planned"
    /\ t.kind = "PrefixTransform"
    /\ q.Orders = <<"OrderByKey">>
    /\ q.Filters = <<FilterValueCompare(">", 1), FilterFunc>>
    /\ q.Offset = 1 /\ q.Limit = 1
    /\ child.Offset = 0 /\ child.Limit = 0 /\ naive.Offset = 1 /\ naive.Limit = 1

\* C5: when every filter is a value compare, a key compare or a key prefix,
\* the child's Filters are the caller's, position by position, with the key
\* of each key compare and the prefix of each key prefix converted, and the
\* naive query has no Filters; when some filter is of another kind, the child
\* has no Filters and the naive query has the caller's, as they were.
C5_FilterRewriting ==
    pc = "planned" =>
        IF AllKnown(q.Filters)
        THEN /\ Len(child.Filters) = Len(q.Filters)
             /\ naive.Filters = << >>
             /\ \A i \in DOMAIN q.Filters :
                   LET f == q.Filters[i]
                   IN  child.Filters[i] =
                          CASE f.kind = "FilterValueCompare" -> f
                            [] f.kind = "FilterKeyCompare" ->
                                  FilterKeyCompare(f.ptr, f.Op, ConvertKey(t, f.Key))
                            [] f.kind = "FilterKeyPrefix" ->
                                  FilterKeyPrefix(f.ptr, ConvertKey(t, f.Key))
        ELSE /\ child.Filters = << >>
             /\ naive.Filters = q.Filters

C5_Witness ==
    /\ pc = "planned"
    /\ t.kind = "PrefixTransform"
    /\ q.Filters = <<FilterKeyPrefix(TRUE, <<2>>), FilterValueCompare(">", 1)>>
    /\ child.Filters = <<FilterKeyPrefix(TRUE, <<2, 2>>), FilterValueCompare(">", 1)>>

(***************************************************************************)
(* Properties of the result stream, under SpecStream.                      *)
(***************************************************************************)
\* What the iterator makes of the child's result r.
Yielded(r) == IF r.Error = "nil" THEN [r EXCEPT !.Key = InvertKey(t, r.Key)] ELSE r

\* C7: the iterator has yielded one result for each result it took from the
\* child's stream, in the child's order: a result without an error with its
\* key inverted and its value unchanged, a result with an error as it came,
\* InvertKey having been called for the former only; and it reports the end
\* only once it has taken all the child's stream produced.
C7_ResultKeyInversion ==
    /\ Len(qr) = taken
    /\ taken <= Len(cqr)
    /\ \A i \in 1..taken : qr[i] = Yielded(cqr[i])
    /\ inverted =
          LET ok == SelectSeq(SubSeq(cqr, 1, taken), LAMBDA r : r.Error = "nil")
          IN  [i \in DOMAIN ok |-> ok[i].Key]
    /\ pc = "exhausted" => taken = Len(cqr)

C7_Witness ==
    /\ pc = "exhausted"
    /\ t.kind = "PrefixTransform"
    /\ taken = 2
    /\ cqr[1] = [Key |-> <<2, 1, 2>>, Value |-> 1, Error |-> "nil"]
    /\ cqr[2] = [Key |-> <<2, 1>>, Value |-> 1, Error |-> "ErrIter"]
    /\ qr[1].Key = <<1, 2>>
    /\ qr[2].Key = <<2, 1>>
    /\ inverted = << <<2, 1, 2>> >>

\* C8: once the caller has closed the results Query returned, whatever it
\* had read of them, the child's result stream is closed and Close has
\* returned the error of the child's Close; and when the child's Query
\* returns an error, Query returns that error and no results, and no stream
\* of the child is open.
C8_CloseChaining ==
    /\ pc = "closed" => (~childOpen /\ closeRet = closeErr)
    /\ pc = "failed" =>
          /\ childRet.err # "nil"
          /\ queryRet = [results |-> FALSE, err |-> childRet.err]
          /\ ~childOpen
    /\ pc \in {"iterating", "exhausted", "closed"} =>
          queryRet = [results |-> TRUE, err |-> "nil"]

C8_Witness ==
    /\ pc = "closed"
    /\ Len(cqr) = 2 /\ taken = 1
    /\ ~childOpen
    /\ closeErr = "ErrChild" /\ closeRet = "ErrChild"

(***************************************************************************)
(* Properties of Query's results, under SpecQuery.                         *)
(***************************************************************************)
\* The table in logical keys.
Logical == {[Key |-> InvertKey(t, e.Key), Value |-> e.Value] : e \in store}

\* The caller's query applied to the table in logical keys.
Reference == ApplyQuery([q EXCEPT !.Prefix = Clean(q.Prefix)], Sorted(<< >>, Logical))

\* The Orders fix the order of the results: an order by key, after orders by
\* value only.
OrderFixed == \E i \in DOMAIN q.Orders : LeadsToByKey(q.Orders, i)

\* C1: the results Query yields are those of the caller's query over the
\* table in logical keys: in the same order where the Orders fix one, and
\* otherwise the same entries where there is no Offset or Limit, and as many
\* where there is.
C1_QueryEquivalence ==
    pc = "exhausted" =>
        IF OrderFixed THEN Results = Reference
        ELSE IF q.Offset = 0 /\ q.Limit = 0 THEN SeqRange(Results) = SeqRange(Reference)
        ELSE Len(Results) = Len(Reference)

\* The Range with each bound that is present converted.
RangeConverted ==
    [Start |-> IF q.Range.Start # NilKey THEN ConvertKey(t, q.Range.Start) ELSE NilKey,
     End |-> IF q.Range.End # NilKey THEN ConvertKey(t, q.Range.End) ELSE NilKey]

\* C6: the child's query has the caller's Range with each present bound
\* converted, the naive query has none, and Query yields no entry whose key
\* is outside the Range.
C6_RangeDelegated ==
    pc \in {"iterating", "exhausted"} =>
        /\ child.Range = RangeConverted
        /\ naive.Range = EmptyRange
        /\ \A i \in DOMAIN Results : MatchRange(q.Range, Results[i].Key)

\* C10: a query with a single key-compare filter (Op, k), no Orders, no
\* Range, no Offset and no Limit, over the whole table, yields exactly the
\* entries whose logical key x satisfies x Op k.
C10_KeyCompareSound ==
    (/\ pc = "exhausted"
     /\ Len(q.Filters) = 1 /\ q.Filters[1].kind = "FilterKeyCompare"
     /\ q.Orders = << >> /\ q.Range = EmptyRange /\ Clean(q.Prefix) = << >>
     /\ q.Offset = 0 /\ q.Limit = 0) =>
        SeqRange(Results) =
            {e \in Logical :
                Compare(q.Filters[1].Op, KeyLess(e.Key, q.Filters[1].Key),
                        e.Key = q.Filters[1].Key)}

====
